---- MODULE Spec2Model ----
(***************************************************************************)
(* Model of the error reporter of Hinton (src/src/errors.rs):              *)
(*   ObjectOprErrType::to_runtime_error, report_errors_list,               *)
(*   print_error_source, print_error_snippet and report_runtime_error.     *)
(*                                                                         *)
(* Text is a sequence of pieces.  A piece is a one-character string, or a  *)
(* fixed multi-character literal of a format string.  Every eprint!,       *)
(* eprintln! and println! call is one write event appended to `out`.       *)
(***************************************************************************)
EXTENDS Integers, Sequences, FiniteSets, TLC

\* ------------------------------------------------------------- bounds
\* Longest call-frame stack handed to report_runtime_error.
MaxFrames == 5
\* Longest error list handed to report_errors_list.
MaxErrors == 2
\* Longest generated source line handed directly to print_error_snippet.
MaxSrcLen == 2
\* Largest column handed directly to print_error_snippet with a generated line.
MaxCol == 3
\* Largest lexeme length handed directly to print_error_snippet.
MaxLexemeLen == 2

\* ------------------------------------------------------------- text helpers
Repeat(piece, n) == [k \in 1..n |-> piece]

Digits == <<"0", "1", "2", "3", "4", "5", "6", "7", "8", "9">>

RECURSIVE NatToDecimal(_)
NatToDecimal(n) ==
    IF n < 10 THEN <<Digits[n + 1]>>
    ELSE NatToDecimal(n \div 10) \o <<Digits[(n % 10) + 1]>>

\* `{}` of an integer: decimal digits, with a leading '-' when negative.
ToDecimal(n) == IF n < 0 THEN <<"-">> \o NatToDecimal(-n) ELSE NatToDecimal(n)

\* The characters str::trim removes (White_Space), among those of the model.
Whitespace == {" ", "\t"}

RECURSIVE TrimStart(_)
TrimStart(s) ==
    IF s # <<>> /\ Head(s) \in Whitespace THEN TrimStart(Tail(s)) ELSE s

RECURSIVE TrimEnd(_)
TrimEnd(s) ==
    IF s # <<>> /\ s[Len(s)] \in Whitespace
    THEN TrimEnd(SubSeq(s, 1, Len(s) - 1)) ELSE s

trim(s) == TrimEnd(TrimStart(s))

\* source.split('\n')
RECURSIVE split(_)
split(s) ==
    IF \E k \in 1..Len(s) : s[k] = "\n"
    THEN LET k == CHOOSE j \in 1..Len(s) :
                      s[j] = "\n" /\ \A h \in 1..(j - 1) : s[h] # "\n"
         IN <<SubSeq(s, 1, k - 1)>> \o split(SubSeq(s, k + 1, Len(s)))
    ELSE <<s>>

\* ------------------------------------------------------------- write events
STYLE_ERR == "ESC[31;1m"
STYLE_BOLD == "ESC[1m"
STYLE_RESET == "ESC[0m"
Styles == {STYLE_ERR, STYLE_BOLD, STYLE_RESET}

eprint(text) == [stream |-> "stderr", text |-> text]
eprintln(text) == [stream |-> "stderr", text |-> text \o <<"\n">>]
println(text) == [stream |-> "stdout", text |-> text \o <<"\n">>]

\* ------------------------------------------------------------- taxonomy
RuntimeErrorType ==
    {"ArgumentError", "AssertionError", "IndexError", "InstanceError", "Internal",
     "KeyError", "RecursionError", "ReferenceError", "StopIteration", "TypeError",
     "ZeroDivision"}

ObjectOprErrVariants == {"TypeError", "IndexError", "ZeroDivisionError", "KeyError"}

to_runtime_error_swapped(self) ==
    CASE self.variant = "TypeError" ->
           [tag |-> "Error", error |-> "TypeError", message |-> self.msg]
      [] self.variant = "IndexError" ->
           [tag |-> "Error", error |-> "IndexError", message |-> self.msg]
      [] self.variant = "ZeroDivisionError" ->
           [tag |-> "Error", error |-> "ZeroDivision", message |-> self.msg]
      [] self.variant = "KeyError" ->
           [tag |-> "Error", error |-> "IndexError", message |-> self.msg]

to_runtime_error(self) ==
    CASE self.variant = "TypeError" ->
           [tag |-> "Error", error |-> "TypeError", message |-> self.msg]
      [] self.variant = "IndexError" ->
           [tag |-> "Error", error |-> "IndexError", message |-> self.msg]
      [] self.variant = "ZeroDivisionError" ->
           [tag |-> "Error", error |-> "ZeroDivision", message |-> self.msg]
      [] self.variant = "KeyError" ->
           [tag |-> "Error", error |-> "KeyError", message |-> self.msg]

error_name(error) ==
    CASE error = "ArgumentError" -> "ArgumentError"
      [] error = "AssertionError" -> "AssertionError"
      [] error = "IndexError" -> "IndexError"
      [] error = "InstanceError" -> "InstanceError"
      [] error = "Internal" -> "InternalError"
      [] error = "KeyError" -> "KeyError"
      [] error = "RecursionError" -> "RecursionError"
      [] error = "ReferenceError" -> "ReferenceError"
      [] error = "StopIteration" -> "EndOfIterationError"
      [] error = "TypeError" -> "TypeError"
      [] error = "ZeroDivision" -> "ZeroDivisionError"

\* ------------------------------------------------------------- snippet
\* (f64::log10(line_num as f64).floor() + 1f64) as usize; the cast of -inf
\* (line_num = 0) saturates to 0.
RECURSIVE Log10Floor(_)
Log10Floor(n) == IF n < 10 THEN 0 ELSE 1 + Log10Floor(n \div 10)

front_pad_short(line_num) == IF line_num = 0 THEN 0 ELSE Log10Floor(line_num)

\* front_pad of print_error_snippet (line 126).
front_pad(line_num) == IF line_num = 0 THEN 0 ELSE Log10Floor(line_num) + 1

\* The loop of lines 131-138: the number of leading ' ' characters.
RECURSIVE removed_whitespace(_)
removed_whitespace(src) ==
    IF src # <<>> /\ Head(src) = " " THEN 1 + removed_whitespace(Tail(src)) ELSE 0

whitespace_pad_size(line_num) == Repeat(" ", front_pad(line_num) + 2)

caret_line_clamped(col, len) ==
    <<" ">> \o Repeat(" ", col) \o <<STYLE_ERR>>
            \o Repeat("^", IF len > 1 THEN 1 ELSE len) \o <<STYLE_RESET>>

\* The text of line 148.
caret_line(col, len) ==
    <<" ">> \o Repeat(" ", col) \o <<STYLE_ERR>> \o Repeat("^", len) \o <<STYLE_RESET>>

\* print_error_snippet: the write events it makes and whether it panicked.
\* `col - removed_whitespace` on usize: with overflow checks (debug) it panics
\* at line 140; without (release) it wraps to a value above isize::MAX, which
\* is only used by " ".repeat(col) at line 148, where it panics with a
\* capacity overflow after the writes of lines 144-147.
print_error_snippet(line_num, col, len, src, overflow_checks) ==
    LET removed == removed_whitespace(src)
        wraps == col < removed
        trimmed_source == trim(src)
        head == << eprintln(whitespace_pad_size(line_num) \o <<"|">>),
                   eprint(<<" ">> \o ToDecimal(line_num) \o <<" ", "|", " ">>),
                   eprintln(trimmed_source),
                   eprint(whitespace_pad_size(line_num) \o <<"|">>) >>
    IN IF wraps /\ overflow_checks
       THEN [panicked |-> TRUE, events |-> <<>>]
       ELSE IF trimmed_source # <<>>
            THEN IF wraps
                 THEN [panicked |-> TRUE, events |-> head]
                 ELSE [panicked |-> FALSE,
                       events |-> head \o <<eprintln(caret_line(col - removed, len)),
                                            eprintln(<<>>)>>]
            ELSE [panicked |-> FALSE, events |-> <<eprintln(<<>>)>>]

\* ------------------------------------------------------------- inputs
ScenarioLine ==
    <<" ", " ", " ", " ", "l", "e", "t", " ", "x", " ", "=", " ", "1", " ", "/", " ",
      "0", ";">>

filepath == <<"m", ".", "h", "t">>

\* The lines of the program text handed to the reporters.
ProgramLines ==
    << <<"a", "b">>,
       <<" ", " ", "a">>,
       ScenarioLine,
       <<>>,
       <<"\t", "a", " ">>,
       <<"a">>,
       <<" ", " ">>,
       <<"a", " ", "b">>,
       <<"b">>,
       <<" ", "a", "b">>,
       <<"a">> >>

RECURSIVE JoinLines(_)
JoinLines(ls) ==
    IF Len(ls) = 1 THEN ls[1] ELSE ls[1] \o <<"\n">> \o JoinLines(Tail(ls))

\* The `source` parameter of report_errors_list and report_runtime_error.
source == JoinLines(ProgramLines)

\* let source_lines: Vec<&str> = source.split('\n').collect();
source_lines == split(source)

SeqsUpTo(S, n) == UNION {[1..k -> S] : k \in 0..n}

\* Faults of object operations handed to to_runtime_error.
ObjectOprErrs == [variant : ObjectOprErrVariants, msg : {"m1", "m2"}]

\* Direct calls of print_error_snippet: generated lines with small columns,
\* and the line `    let x = 1 / 0;` with every column up to its length.
SnippetLineNums == {1, 3, 9, 10, 99, 100, 999, 1000}
SnippetChars == {" ", "\t", "a"}
SnippetCalls ==
    [line_num : SnippetLineNums, col : 0..MaxCol, len : 1..MaxLexemeLen,
     src : SeqsUpTo(SnippetChars, MaxSrcLen)]
    \cup [line_num : {3}, col : 0..Len(ScenarioLine), len : 1..MaxLexemeLen,
          src : {ScenarioLine}]

\* Records of the parser and compiler: a line of the program, a column at or
\* after the line's leading spaces, a lexeme length of at least 1.
ErrorLineNums == {2, 4, 10}
ErrorReports ==
    {[line |-> l, column |-> removed_whitespace(source_lines[l]) + o,
      lexeme_len |-> n, message |-> m] :
        l \in ErrorLineNums, o \in {0, 1}, n \in {1, 2}, m \in {"m1", "m2"}}

\* Call frames with their resolved line info (chunk.get_line_info(frame.ip)).
FuncScript == <<"<", "s", "c", "r", "i", "p", "t", ">">>
FuncF == <<"f">>
Frames == {[name |-> FuncF, line |-> <<5, 3>>], [name |-> FuncScript, line |-> <<11, 0>>]}

\* Line info of the faulting instruction (chunk.get_line_info(frame.ip - 1)):
\* a position on a line of the program that holds code.
FaultLines == {<<3, 17>>, <<10, 1>>}

\* ------------------------------------------------------------- state
VARIABLES
    op,                  \* the function called
    pc,                  \* "entry", "traceback", "done" or "panicked"
    out,                 \* the write events made so far
    fault, result,       \* to_runtime_error: self and the returned value
    line_num, col, len, src,     \* print_error_snippet: its parameters
    errors,              \* report_errors_list: the error list
    error, message, line, frames,    \* report_runtime_error: its inputs
    i,                   \* the number of loop iterations completed
    prev_err, repeated_line_count    \* report_runtime_error: loop locals

vars == <<op, pc, out, fault, result, line_num, col, len, src, errors, error,
          message, line, frames, i, prev_err, repeated_line_count>>

NoFault == [variant |-> "none", msg |-> "none"]
NoResult == [tag |-> "None"]

InitCommon ==
    /\ pc = "entry"
    /\ out = <<>>
    /\ result = NoResult
    /\ i = 0
    /\ prev_err = <<>>
    /\ repeated_line_count = 0

InitToRuntimeError ==
    /\ op = "to_runtime_error"
    /\ fault \in ObjectOprErrs
    /\ line_num = 0 /\ col = 0 /\ len = 0 /\ src = <<>>
    /\ errors = <<>>
    /\ error = "none" /\ message = "none" /\ line = <<0, 0>> /\ frames = <<>>

InitPrintErrorSnippet ==
    /\ op = "print_error_snippet"
    /\ fault = NoFault
    /\ \E c \in SnippetCalls :
          line_num = c.line_num /\ col = c.col /\ len = c.len /\ src = c.src
    /\ errors = <<>>
    /\ error = "none" /\ message = "none" /\ line = <<0, 0>> /\ frames = <<>>

InitReportErrorsList ==
    /\ op = "report_errors_list"
    /\ fault = NoFault
    /\ line_num = 0 /\ col = 0 /\ len = 0 /\ src = <<>>
    /\ errors \in SeqsUpTo(ErrorReports, MaxErrors)
    /\ error = "none" /\ message = "none" /\ line = <<0, 0>> /\ frames = <<>>

InitReportRuntimeError ==
    /\ op = "report_runtime_error"
    /\ fault = NoFault
    /\ line_num = 0 /\ col = 0 /\ len = 0 /\ src = <<>>
    /\ errors = <<>>
    /\ error \in RuntimeErrorType
    /\ message = "m1"
    /\ line \in FaultLines
    /\ frames \in SeqsUpTo(Frames, MaxFrames) \ {<<>>}

Init ==
    /\ InitCommon
    /\ \/ InitToRuntimeError
       \/ InitPrintErrorSnippet
       \/ InitReportErrorsList
       \/ InitReportRuntimeError

\* ------------------------------------------------------------- operations
AbortBanner == <<STYLE_ERR, "ERROR:", STYLE_RESET, " Aborted execution due to previous errors.">>

\* to_runtime_error(&self): the fault is borrowed, the result is returned.
ToRuntimeError ==
    /\ op = "to_runtime_error" /\ pc = "entry"
    /\ result' = to_runtime_error(fault)
    /\ pc' = "done"
    /\ UNCHANGED <<op, out, fault, line_num, col, len, src, errors, error, message,
                   line, frames, i, prev_err, repeated_line_count>>

\* A direct call of the public print_error_snippet.
PrintErrorSnippet ==
    /\ op = "print_error_snippet" /\ pc = "entry"
    /\ \E overflow_checks \in BOOLEAN :
          LET r == print_error_snippet(line_num, col, len, src, overflow_checks)
          IN /\ out' = out \o r.events
             /\ pc' = IF r.panicked THEN "panicked" ELSE "done"
    /\ UNCHANGED <<op, fault, result, line_num, col, len, src, errors, error, message,
                   line, frames, i, prev_err, repeated_line_count>>

\* front_pad of print_error_source (line 107): the same expression as line 126.
banner_front_pad(n) == IF n = 0 THEN 0 ELSE Log10Floor(n) + 1

\* The text of lines 110-114.
location_banner(n) ==
    <<" ">> \o Repeat("-", banner_front_pad(n)) \o <<"---> File '">> \o filepath
            \o <<"'.">>

\* print_error_source: lines.get(line_num - 1).unwrap() panics before any write
\* when the line is not a line of the source.
print_error_source(n, c, l, lines, overflow_checks) ==
    IF n \notin 1..Len(lines)
    THEN [panicked |-> TRUE, events |-> <<>>]
    ELSE LET snippet == print_error_snippet(n, c, l, lines[n], overflow_checks)
         IN [panicked |-> snippet.panicked,
             events |-> <<eprintln(location_banner(n))>> \o snippet.events]

next_error_reversed(errs, k) == errs[Len(errs) - k]

\* The error report the (k+1)-th iteration of the loop of line 84 handles.
next_error(errs, k) == errs[k + 1]

\* One iteration of `for error in errors.iter()`.
ReportErrorsListIter ==
    /\ op = "report_errors_list" /\ pc = "entry"
    /\ i < Len(errors)
    /\ \E overflow_checks \in BOOLEAN :
          LET e == next_error(errors, i)
              r == print_error_source(e.line, e.column, e.lexeme_len, source_lines,
                                      overflow_checks)
          IN /\ out' = out \o <<eprintln(<<e.message>>)>> \o r.events
             /\ pc' = IF r.panicked THEN "panicked" ELSE "entry"
    /\ i' = i + 1
    /\ UNCHANGED <<op, fault, result, line_num, col, len, src, errors, error, message,
                   line, frames, prev_err, repeated_line_count>>

\* The end of the loop and the banner of line 95.
ReportErrorsListEnd ==
    /\ op = "report_errors_list" /\ pc = "entry"
    /\ i = Len(errors)
    /\ out' = Append(out, eprintln(AbortBanner))
    /\ pc' = "done"
    /\ UNCHANGED <<op, fault, result, line_num, col, len, src, errors, error, message,
                   line, frames, i, prev_err, repeated_line_count>>

\* Lines 198-203: the label of a frame.
format_frame(frame) ==
    IF frame.name # <<>> /\ Head(frame.name) = "<"
    THEN Repeat(" ", 4) \o <<"at [">> \o ToDecimal(frame.line[1]) \o <<":">>
           \o ToDecimal(frame.line[2]) \o <<"] in ">> \o frame.name
    ELSE Repeat(" ", 4) \o <<"at [">> \o ToDecimal(frame.line[1]) \o <<":">>
           \o ToDecimal(frame.line[2]) \o <<"] in '">> \o frame.name \o <<"()'">>

\* Lines 212-216 and 223-227: the summary of a repeated line.
repeat_summary(count) ==
    Repeat(" ", 7) \o <<STYLE_BOLD, "Previous line repeated ">> \o ToDecimal(count - 2)
      \o <<" more times.", STYLE_RESET>>

traceback_step_two_copies(prev, count, new_err, is_last) ==
    IF prev = new_err
    THEN [prev_err |-> prev,
          repeated_line_count |-> count + 1,
          events |-> IF count + 1 < 2 THEN <<eprintln(new_err)>>
                     ELSE IF is_last THEN <<eprintln(repeat_summary(count + 1))>>
                     ELSE <<>>]
    ELSE [prev_err |-> new_err,
          repeated_line_count |-> 0,
          events |-> (IF count > 0 THEN <<eprintln(repeat_summary(count))>> ELSE <<>>)
                       \o <<eprintln(new_err)>>]

traceback_step_keeps_count(prev, count, new_err, is_last) ==
    IF prev = new_err
    THEN [prev_err |-> prev,
          repeated_line_count |-> count + 1,
          events |-> IF count + 1 < 3 THEN <<eprintln(new_err)>>
                     ELSE IF is_last THEN <<eprintln(repeat_summary(count + 1))>>
                     ELSE <<>>]
    ELSE [prev_err |-> new_err,
          repeated_line_count |-> count,
          events |-> (IF count > 0 THEN <<eprintln(repeat_summary(count))>> ELSE <<>>)
                       \o <<eprintln(new_err)>>]

\* Lines 205-232: the body of the traceback loop after the label is formatted.
\* repeated_line_count is an i32 that never exceeds the number of frames.
traceback_step(prev, count, new_err, is_last) ==
    IF prev = new_err
    THEN [prev_err |-> prev,
          repeated_line_count |-> count + 1,
          events |-> IF count + 1 < 3 THEN <<eprintln(new_err)>>
                     ELSE IF is_last THEN <<eprintln(repeat_summary(count + 1))>>
                     ELSE <<>>]
    ELSE [prev_err |-> new_err,
          repeated_line_count |-> 0,
          events |-> (IF count > 0 THEN <<eprintln(repeat_summary(count))>> ELSE <<>>)
                       \o <<eprintln(new_err)>>]

fault_header_swapped(err, msg) ==
    <<STYLE_ERR, msg, ":", STYLE_RESET, STYLE_BOLD, " ", error_name(err), STYLE_RESET>>

\* The text of line 182.
fault_header(err, msg) ==
    <<STYLE_ERR, error_name(err), ":", STYLE_RESET, STYLE_BOLD, " ", msg, STYLE_RESET>>

TracebackHeader == <<"Traceback (most recent call last):">>

\* The width of the caret span report_runtime_error asks for (line 185).
fault_span == 1

\* Lines 162-192: the fault's name and message, the snippet of the fault line,
\* the traceback header and the loop's locals.
ReportRuntimeErrorBegin ==
    /\ op = "report_runtime_error" /\ pc = "entry"
    /\ \E overflow_checks \in BOOLEAN :
          LET named == <<eprintln(fault_header(error, message))>>
          IN IF line[1] \notin 1..Len(source_lines)
             THEN out' = out \o named /\ pc' = "panicked"
             ELSE LET r == print_error_snippet(line[1], line[2], fault_span,
                                               source_lines[line[1]], overflow_checks)
                  IN IF r.panicked
                     THEN out' = out \o named \o r.events /\ pc' = "panicked"
                     ELSE /\ out' = out \o named \o r.events
                                         \o <<println(TracebackHeader)>>
                          /\ pc' = "traceback"
    /\ prev_err' = <<>>
    /\ repeated_line_count' = 0
    /\ i' = 0
    /\ UNCHANGED <<op, fault, result, line_num, col, len, src, errors, error, message,
                   line, frames>>

\* One iteration of `for (i, frame) in frames_list.enumerate()`.
TracebackIter ==
    /\ op = "report_runtime_error" /\ pc = "traceback"
    /\ i < Len(frames)
    /\ LET new_err == format_frame(frames[i + 1])
           r == traceback_step(prev_err, repeated_line_count, new_err,
                               i = Len(frames) - 1)
       IN /\ out' = out \o r.events
          /\ prev_err' = r.prev_err
          /\ repeated_line_count' = r.repeated_line_count
    /\ i' = i + 1
    /\ UNCHANGED <<op, pc, fault, result, line_num, col, len, src, errors, error,
                   message, line, frames>>

\* The end of the loop and the banner of line 235.
ReportRuntimeErrorEnd ==
    /\ op = "report_runtime_error" /\ pc = "traceback"
    /\ i = Len(frames)
    /\ out' = Append(out, eprintln(<<"\n">> \o AbortBanner))
    /\ pc' = "done"
    /\ UNCHANGED <<op, fault, result, line_num, col, len, src, errors, error, message,
                   line, frames, i, prev_err, repeated_line_count>>

Next ==
    \/ ToRuntimeError
    \/ PrintErrorSnippet
    \/ ReportErrorsListIter
    \/ ReportErrorsListEnd
    \/ ReportRuntimeErrorBegin
    \/ TracebackIter
    \/ ReportRuntimeErrorEnd

Spec == Init /\ [][Next]_vars

\* ------------------------------------------------------------- reading `out`
\* What the claims below say is read back from the written text alone.
IsPrefixOf(p, t) == Len(p) <= Len(t) /\ SubSeq(t, 1, Len(p)) = p

\* An event's text without its final line break.
Body(e) ==
    IF e.text # <<>> /\ e.text[Len(e.text)] = "\n"
    THEN SubSeq(e.text, 1, Len(e.text) - 1) ELSE e.text

IsLabelEvent(e) ==
    e.stream = "stderr" /\ IsPrefixOf(<<" ", " ", " ", " ", "at [">>, e.text)

IsSummaryEvent(e) ==
    /\ e.stream = "stderr"
    /\ \E k \in 1..Len(e.text) : e.text[k] = "Previous line repeated "

IsAbortEvent(e) ==
    /\ e.stream = "stderr"
    /\ \E k \in 1..Len(e.text) : e.text[k] = " Aborted execution due to previous errors."

DigitValue(d) == CHOOSE k \in 0..9 : Digits[k + 1] = d

RECURSIVE ParseNat(_)
ParseNat(ds) ==
    IF ds = <<>> THEN 0
    ELSE 10 * ParseNat(SubSeq(ds, 1, Len(ds) - 1)) + DigitValue(ds[Len(ds)])

ParseInt(ds) == IF ds # <<>> /\ Head(ds) = "-" THEN 0 - ParseNat(Tail(ds)) ELSE ParseNat(ds)

\* The number a summary line states: the pieces between
\* "Previous line repeated " and " more times.".
SummaryNumber(e) ==
    LET a == CHOOSE k \in 1..Len(e.text) : e.text[k] = "Previous line repeated "
        b == CHOOSE k \in 1..Len(e.text) : e.text[k] = " more times."
    IN ParseInt(SubSeq(e.text, a + 1, b - 1))

\* A summary line as the program words it, for the number n.
IsSummaryOf(e, n) ==
    /\ IsSummaryEvent(e)
    /\ \E k \in 1..Len(e.text) : e.text[k] = " more times."
    /\ SummaryNumber(e) = n

\* The label and summary lines of the traceback, in the order written.
TracebackEvents == SelectSeq(out, LAMBDA e : IsLabelEvent(e) \/ IsSummaryEvent(e))

\* The written traceback cut into runs: each run is a label, the number of
\* consecutive verbatim copies of it, and the numbers of the summary lines
\* that follow these copies.
RECURSIVE ParseRuns(_, _)
ParseRuns(events, acc) ==
    IF events = <<>> THEN acc
    ELSE LET e == Head(events)
             n == Len(acc)
         IN IF IsSummaryEvent(e)
            THEN IF n = 0
                 THEN ParseRuns(Tail(events),
                        <<[label |-> <<>>, copies |-> 0, summaries |-> <<SummaryNumber(e)>>]>>)
                 ELSE ParseRuns(Tail(events),
                        [acc EXCEPT ![n].summaries = Append(@, SummaryNumber(e))])
            ELSE IF n > 0 /\ acc[n].label = Body(e) /\ acc[n].summaries = <<>>
                 THEN ParseRuns(Tail(events), [acc EXCEPT ![n].copies = @ + 1])
                 ELSE ParseRuns(Tail(events),
                        Append(acc, [label |-> Body(e), copies |-> 1, summaries |-> <<>>]))

OutRuns == ParseRuns(TracebackEvents, <<>>)

\* The maximal runs of consecutive identical labels of the frame stack.
RECURSIVE RunsOfLabels(_, _)
RunsOfLabels(labels, acc) ==
    IF labels = <<>> THEN acc
    ELSE LET n == Len(acc)
         IN IF n > 0 /\ acc[n].label = Head(labels)
            THEN RunsOfLabels(Tail(labels), [acc EXCEPT ![n].n = @ + 1])
            ELSE RunsOfLabels(Tail(labels), Append(acc, [label |-> Head(labels), n |-> 1]))

FrameLabels == [k \in 1..Len(frames) |-> format_frame(frames[k])]
FrameRuns == RunsOfLabels(FrameLabels, <<>>)

RECURSIVE SumSeq(_)
SumSeq(ns) == IF ns = <<>> THEN 0 ELSE Head(ns) + SumSeq(Tail(ns))

TracebackDone == op = "report_runtime_error" /\ pc = "done"

\* ------------------------------------------------------------- claims
\* C1 (as stated): in report_runtime_error every maximal run of N >= 3 identical
\* labels is written as exactly 2 copies of the label followed by exactly one
\* summary line "Previous line repeated N-2 more times.".
C1_TwoCopiesThenSummary ==
    TracebackDone =>
        /\ Len(OutRuns) = Len(FrameRuns)
        /\ \A j \in 1..Len(FrameRuns) :
              FrameRuns[j].n >= 3 =>
                  /\ OutRuns[j].label = FrameRuns[j].label
                  /\ OutRuns[j].copies = 2
                  /\ OutRuns[j].summaries = <<FrameRuns[j].n - 2>>

\* C1 (amended): every maximal run of N >= 3 identical labels is written as
\* exactly 3 copies of the label, followed by exactly one summary line
\* "Previous line repeated N-3 more times." when N >= 4 or another label
\* follows the run, and by no summary line when N = 3 and the run ends the stack.
C1_ThreeCopiesThenSummary ==
    TracebackDone =>
        /\ Len(OutRuns) = Len(FrameRuns)
        /\ \A j \in 1..Len(FrameRuns) :
              FrameRuns[j].n >= 3 =>
                  /\ OutRuns[j].label = FrameRuns[j].label
                  /\ OutRuns[j].copies = 3
                  /\ OutRuns[j].summaries =
                        IF FrameRuns[j].n >= 4 \/ j < Len(FrameRuns)
                        THEN <<FrameRuns[j].n - 3>> ELSE <<>>

\* C1 witness: a finished traceback of a stack with a run of 4 or more
\* identical labels that another label follows.
C1_Witness ==
    /\ TracebackDone
    /\ \E j \in 1..Len(FrameRuns) : FrameRuns[j].n >= 4 /\ j < Len(FrameRuns)

\* C2 (as stated): when every maximal run of identical labels has length 1 or
\* 2, the traceback is exactly one verbatim label line per frame, in stack
\* order, and no summary line is written (the subtraction
\* repeated_line_count - 2 never yields a number below 0).
C2_ShortRunsVerbatim ==
    (TracebackDone /\ \A j \in 1..Len(FrameRuns) : FrameRuns[j].n <= 2) =>
        /\ \A k \in 1..Len(TracebackEvents) : ~IsSummaryEvent(TracebackEvents[k])
        /\ [k \in 1..Len(TracebackEvents) |-> Body(TracebackEvents[k])] = FrameLabels

\* C3 (as stated): for every maximal run of N identical labels, the number of
\* verbatim copies written plus the number its summary line states (0 without
\* a summary line) is N, and a run gets at most one summary line.
C3_CountsPreserved ==
    TracebackDone =>
        /\ Len(OutRuns) = Len(FrameRuns)
        /\ \A j \in 1..Len(FrameRuns) :
              /\ OutRuns[j].label = FrameRuns[j].label
              /\ Len(OutRuns[j].summaries) <= 1
              /\ OutRuns[j].copies + SumSeq(OutRuns[j].summaries) = FrameRuns[j].n

\* C10: the loop follows the run_length rule.  A label that differs from
\* previous_label (the first occurrence) is printed and becomes previous_label
\* with run_length 0, after the summary "Previous line repeated
\* {run_length - 2} more times." of the ended run when run_length > 0.  An
\* identical label increments run_length and is printed only while
\* run_length < 3; from run_length >= 3 on it is suppressed, and exactly one
\* summary line is printed if it is the last frame of the stack.
C10_RunLengthRule ==
    [][ (op = "report_runtime_error" /\ pc = "traceback" /\ i < Len(frames)) =>
          LET label == FrameLabels[i + 1]
              new == SubSeq(out', Len(out) + 1, Len(out'))
          IN IF prev_err # label
             THEN /\ prev_err' = label
                  /\ repeated_line_count' = 0
                  /\ IF repeated_line_count > 0
                     THEN /\ Len(new) = 2
                          /\ IsSummaryOf(new[1], repeated_line_count - 2)
                          /\ IsLabelEvent(new[2]) /\ Body(new[2]) = label
                     ELSE /\ Len(new) = 1
                          /\ IsLabelEvent(new[1]) /\ Body(new[1]) = label
             ELSE /\ prev_err' = prev_err
                  /\ repeated_line_count' = repeated_line_count + 1
                  /\ IF repeated_line_count' < 3
                     THEN /\ Len(new) = 1
                          /\ IsLabelEvent(new[1]) /\ Body(new[1]) = label
                     ELSE IF i + 1 = Len(frames)
                          THEN /\ Len(new) = 1
                               /\ IsSummaryOf(new[1], repeated_line_count' - 2)
                          ELSE new = <<>> ]_vars

\* C10 witness: the stack is exhausted in a suppressed run and the summary of
\* that run is the last line written.
C10_Witness ==
    /\ op = "report_runtime_error" /\ pc = "traceback"
    /\ i = Len(frames)
    /\ repeated_line_count >= 3
    /\ IsSummaryOf(out[Len(out)], repeated_line_count - 2)

\* ------------------------------------------------------------- reading snippets
RECURSIVE ConcatText(_)
ConcatText(events) ==
    IF events = <<>> THEN <<>> ELSE Head(events).text \o ConcatText(Tail(events))

\* The pieces that take a place on the terminal.
Visible(text) == SelectSeq(text, LAMBDA piece : piece \notin Styles)

\* The lines a sequence of stderr events shows (the last element is what
\* follows the final line break).
ShownLines(events) == split(Visible(ConcatText(events)))

FirstIndexOf(text, piece) ==
    IF \E k \in 1..Len(text) : text[k] = piece
    THEN CHOOSE k \in 1..Len(text) :
             text[k] = piece /\ \A h \in 1..(k - 1) : text[h] # piece
    ELSE 0

CountOf(text, piece) == Cardinality({k \in 1..Len(text) : text[k] = piece})

\* The number of leading ' ' characters of a line.
LeadingSpaceCount(s) ==
    CHOOSE k \in 0..Len(s) :
        (\A j \in 1..k : s[j] = " ") /\ (k = Len(s) \/ s[k + 1] # " ")

\* In a gutter-prefixed line, the index of the first place after "| ".
TextStart(shown) == FirstIndexOf(shown, "|") + 2

\* The width of the gutter of a blank-gutter line: its padding is the gutter
\* plus one space on each side.
GutterWidth(shown) == FirstIndexOf(shown, "|") - 3

RECURSIVE Pow10(_)
Pow10(k) == IF k <= 0 THEN 1 ELSE 10 * Pow10(k - 1)

SnippetDone == op = "print_error_snippet" /\ pc = "done"

\* C4: for len >= 1, a non-blank src and col >= the number of leading ' ' of
\* src, the caret line holds exactly len carets, one block, whose first caret
\* is at offset col - leading_spaces(src) from the first character of the
\* trimmed text printed above it; both lines have prefixes of equal width and
\* the carets are not clamped to the length of the line.
C4_CaretSpan ==
    (SnippetDone /\ len >= 1 /\ trim(src) # <<>> /\ col >= LeadingSpaceCount(src)) =>
        LET shown == ShownLines(out)
            first == FirstIndexOf(shown[3], "^")
        IN /\ Len(shown) >= 3
           /\ CountOf(shown[3], "^") = len
           /\ \A k \in first..(first + len - 1) : shown[3][k] = "^"
           /\ FirstIndexOf(shown[2], "|") = FirstIndexOf(shown[3], "|")
           /\ SubSeq(shown[2], 1, TextStart(shown[2]) - 1)
                 = <<" ">> \o NatToDecimal(line_num) \o <<" ", "|", " ">>
           /\ SubSeq(shown[2], TextStart(shown[2]), Len(shown[2])) = trim(src)
           /\ first - TextStart(shown[3]) = col - LeadingSpaceCount(src)

\* C4 witness: a snippet of an indented line whose caret span of 2 starts
\* after the indentation and runs past the end of the printed text.
C4_Witness ==
    /\ SnippetDone /\ trim(src) # <<>>
    /\ LeadingSpaceCount(src) > 0 /\ col > LeadingSpaceCount(src) /\ len = 2
    /\ col - LeadingSpaceCount(src) + len > Len(trim(src))
    /\ CountOf(ShownLines(out)[3], "^") = 2

\* C5 (as stated): when col is the 1-based position of a character of the
\* untrimmed line (one that is printed), the first caret is in the printed
\* column of that same character; for `    let x = 1 / 0;`, col 17, len 1 the
\* caret is 13 places after the start of the text and under the '0'.
C5_CaretUnderOneBasedColumn ==
    LET stripped == Len(src) - Len(TrimStart(src))
    IN (SnippetDone /\ stripped < col /\ col <= stripped + Len(trim(src))) =>
           LET shown == ShownLines(out)
               first == FirstIndexOf(shown[3], "^")
           IN /\ first = TextStart(shown[2]) + (col - stripped - 1)
              /\ shown[2][first] = src[col]

IsMessageEvent(e) ==
    e.stream = "stderr" /\ Len(e.text) = 2 /\ e.text[1] \in {"m1", "m2"}

IsBannerEvent(e) ==
    e.stream = "stderr" /\ FirstIndexOf(e.text, "---> File '") > 0

RECURSIVE IndicesWhere(_, _, _)
IndicesWhere(events, k, acc) ==
    IF k > Len(events) THEN acc
    ELSE IndicesWhere(events, k + 1,
                      IF IsMessageEvent(events[k]) THEN Append(acc, k) ELSE acc)

\* The places of the message lines in `out`, in order.
MessagePlaces == IndicesWhere(out, 1, <<>>)

AbortCount == Cardinality({k \in 1..Len(out) : IsAbortEvent(out[k])})

\* The events written for the k-th message: from it to the next message, the
\* aggregate banner or the end.
ReportBlock(k) ==
    LET from == MessagePlaces[k]
        to == IF k < Len(MessagePlaces) THEN MessagePlaces[k + 1] - 1
              ELSE IF IsAbortEvent(out[Len(out)]) THEN Len(out) - 1 ELSE Len(out)
    IN SubSeq(out, from, to)

\* C7: report_errors_list handles the records in input order, none skipped,
\* reordered or merged: for each its message, then its location banner, then
\* its snippet; the aggregate banner is written exactly once, last, after the
\* whole list, also for the empty list.
C7_BatchOrder ==
    op = "report_errors_list" =>
        /\ Len(MessagePlaces) = i
        /\ (i > 0 => MessagePlaces[1] = 1)
        /\ \A k \in 1..i :
              LET block == ReportBlock(k)
                  e == errors[k]
                  snippet == SubSeq(block, 3, Len(block))
                  shown == ShownLines(snippet)
              IN /\ block[1].text = <<e.message, "\n">>
                 /\ Len(block) >= 3
                 /\ IsBannerEvent(block[2])
                 /\ \A h \in 1..Len(snippet) :
                       ~IsBannerEvent(snippet[h]) /\ ~IsAbortEvent(snippet[h])
                 /\ IF trim(source_lines[e.line]) # <<>>
                    THEN /\ Len(shown) = 5
                         /\ SubSeq(shown[2], 1, TextStart(shown[2]) - 1)
                               = <<" ">> \o NatToDecimal(e.line) \o <<" ", "|", " ">>
                         /\ SubSeq(shown[2], TextStart(shown[2]), Len(shown[2]))
                               = trim(source_lines[e.line])
                         /\ CountOf(shown[3], "^") = e.lexeme_len
                    ELSE shown = << <<>>, <<>> >>
        /\ AbortCount = (IF pc = "done" THEN 1 ELSE 0)
        /\ pc = "done" =>
              /\ i = Len(errors)
              /\ IsAbortEvent(out[Len(out)])
              /\ Len(errors) = 0 => Len(out) = 1

\* C7 witness: a finished report of a list that holds the same record twice.
C7_Witness ==
    /\ op = "report_errors_list" /\ pc = "done"
    /\ Len(errors) = 2 /\ errors[1] = errors[2]
    /\ Len(MessagePlaces) = 2 /\ AbortCount = 1

\* The display names of the runtime error kinds.
DisplayName ==
    [ArgumentError |-> "ArgumentError", AssertionError |-> "AssertionError",
     IndexError |-> "IndexError", InstanceError |-> "InstanceError",
     Internal |-> "InternalError", KeyError |-> "KeyError",
     RecursionError |-> "RecursionError", ReferenceError |-> "ReferenceError",
     StopIteration |-> "EndOfIterationError", TypeError |-> "TypeError",
     ZeroDivision |-> "ZeroDivisionError"]

RECURSIVE IsSubsequence(_, _)
IsSubsequence(a, b) ==
    IF a = <<>> THEN TRUE
    ELSE IF b = <<>> THEN FALSE
    ELSE IF Head(a) = Head(b) THEN IsSubsequence(Tail(a), Tail(b))
    ELSE IsSubsequence(a, Tail(b))

\* C8: when the line-table lookups succeed, report_runtime_error writes, in this
\* order: the display name and message of the fault, the snippet of the fault
\* line with a caret span 1 wide, the traceback header, the label and summary
\* lines of the frames in stack order, and one banner "Aborted execution due
\* to previous errors." as the last thing written; no banner is written before
\* the end, also when the stack ends in a suppressed run.
C8_RuntimeReportOrder ==
    /\ (op = "report_runtime_error" /\ pc # "done") => AbortCount = 0
    /\ TracebackDone =>
          LET n == Len(out)
              head == Visible(Body(out[1]))
              shown == ShownLines(SubSeq(out, 2, 7))
              trace == SubSeq(out, 9, n - 1)
              labels == SelectSeq(trace, IsLabelEvent)
          IN /\ n >= 10
             /\ out[1].stream = "stderr"
             /\ head = <<DisplayName[error], ":", " ", message>>
             /\ \A k \in 2..7 : out[k].stream = "stderr"
             /\ Len(shown) = 5
             /\ SubSeq(shown[2], TextStart(shown[2]), Len(shown[2]))
                   = trim(source_lines[line[1]])
             /\ CountOf(shown[3], "^") = 1
             /\ out[8] = [stream |-> "stdout",
                          text |-> <<"Traceback (most recent call last):", "\n">>]
             /\ \A k \in 1..Len(trace) :
                   IsLabelEvent(trace[k]) \/ IsSummaryEvent(trace[k])
             /\ IsSubsequence([k \in 1..Len(labels) |-> Body(labels[k])], FrameLabels)
             /\ [j \in 1..Len(OutRuns) |-> OutRuns[j].label]
                   = [j \in 1..Len(FrameRuns) |-> FrameRuns[j].label]
             /\ IsAbortEvent(out[n])
             /\ AbortCount = 1

\* C8 witness: a finished report whose stack ended in a suppressed run: the
\* summary of that run is directly followed by the banner, the last line.
C8_Witness ==
    /\ TracebackDone
    /\ repeated_line_count >= 3
    /\ IsSummaryEvent(out[Len(out) - 1])
    /\ IsAbortEvent(out[Len(out)])

\* C9: to_runtime_error is total and lossless: every variant yields an Error
\* result with the kind TypeError -> TypeError, IndexError -> IndexError,
\* ZeroDivisionError -> ZeroDivision, KeyError -> KeyError and the variant's
\* message; distinct variants give distinct kinds; the fault is not changed.
C9_ConversionTotal ==
    /\ [](op = "to_runtime_error" =>
           /\ fault.variant \in ObjectOprErrVariants
           /\ pc \in {"entry", "done"}
           /\ pc = "done" =>
                 /\ result.tag = "Error"
                 /\ result.error \in RuntimeErrorType
                 /\ result.error =
                       [TypeError |-> "TypeError", IndexError |-> "IndexError",
                        ZeroDivisionError |-> "ZeroDivision",
                        KeyError |-> "KeyError"][fault.variant]
                 /\ result.message = fault.msg
                 /\ \A other \in ObjectOprErrs :
                       other.variant # fault.variant =>
                           to_runtime_error(other).error # result.error)
    /\ [][fault' = fault]_vars

\* C9 witness: a ZeroDivisionError fault converted to a ZeroDivision error
\* result that carries its message.
C9_Witness ==
    /\ op = "to_runtime_error" /\ pc = "done"
    /\ fault = [variant |-> "ZeroDivisionError", msg |-> "m2"]
    /\ result = [tag |-> "Error", error |-> "ZeroDivision", message |-> "m2"]

\* C11 (as stated): for a source line that is empty or only whitespace, and
\* for every column >= 0 (also one below the number of leading spaces), the
\* call of print_error_snippet completes without error and writes no gutter,
\* source or caret line but exactly one blank line; for a non-blank line (with
\* a column at or after its leading spaces) the three snippet lines are
\* followed by exactly one blank line.
C11_BlankLineSnippet ==
    (op = "print_error_snippet" /\ pc # "entry") =>
        /\ trim(src) = <<>> =>
              /\ pc = "done"
              /\ ShownLines(out) = << <<>>, <<>> >>
        /\ (trim(src) # <<>> /\ col >= LeadingSpaceCount(src)) =>
              LET shown == ShownLines(out)
              IN /\ pc = "done"
                 /\ Len(shown) = 5
                 /\ \A k \in 1..3 : shown[k] # <<>>
                 /\ shown[4] = <<>> /\ shown[5] = <<>>

====
